---- MODULE Spec2Model ----
(***************************************************************************)
(* thermosteam.stream.Stream: the state-sharing (link / unlink / copy)     *)
(* engine, the unit-resolution cache, the derived composition and          *)
(* intensive properties, split_to and the single-phase -> multi-phase      *)
(* cast.  Python objects are heap cells named by small integers: two       *)
(* streams alias a facet exactly when they hold the same cell id.          *)
(***************************************************************************)
EXTENDS Integers, Sequences, FiniteSets, TLC

\* ------------------------------------------------------------------ bounds
NStreams == 3          \* stream slots: all but the last are constructed in Init
MaxDelta == 1          \* T and P inputs: default + 0..MaxDelta steps
MaxMol == 1            \* molar-flow inputs per chemical: 0..MaxMol
MaxWrites == 1         \* setter calls in one run

\* --------------------------------------------------------------- constants
T_default == 29815     \* 298.15 K, in units of 0.01 K
P_default == 101325    \* Pa

Streams == 1..NStreams
Chems == {"Water", "Ethanol"}
MW == [c \in Chems |-> IF c = "Water" THEN 18 ELSE 46]
PhaseTags == {"l", "g"}
TInputs == {T_default + 100 * k : k \in 0..MaxDelta}
PInputs == {P_default + 1000 * k : k \in 0..MaxDelta}
FlowInputs == [Chems -> 0..MaxMol]

RawIds == 1..(4 * NStreams)    \* cell names (0 is "no cell"): 3 per stream slot, and one new cell
                               \* per stream within an operation

VARIABLES
    stream,        \* the Stream objects: class, _ID, and the cells _TP, _imol._data, ... they hold
    heap,          \* the cells: thermal conditions, molar arrays, phase tags, view caches
    index_cache,   \* Stream._index_cache: units -> (indexer name, factor)
    out,           \* what the latest property read / unit resolution / cast / split returned or raised
    hist,          \* the latest link, unlink and copy calls
    nwrites        \* setter calls made so far

vars == <<stream, heap, index_cache, out, hist, nwrites>>
aux == <<index_cache, out>>

\* ------------------------------------------------------------- heap cells
NoTP == [T |-> 0, P |-> 0]
NoData == [c \in Chems |-> 0 - 1]
NoPhase == "-"
EmptyCache == [mass |-> 0, vol |-> 0]
NoIndexer == [data |-> 0, phase |-> 0, data_cache |-> 0]
NoStream == [cls |-> "none", ID |-> 0, TP |-> 0, imol |-> NoIndexer, phases |-> "-", vle |-> FALSE]

\* The cell an operation allocates for stream s.
Fresh(s) == 3 * NStreams + s

\* Cell names carry no meaning.  After every operation a cell is renamed to the
\* least stream holding it (a molar array that only a cached view still
\* references: to NStreams + the first such view), and a cell nobody references
\* is freed.
Least(S) == CHOOSE i \in S : \A j \in S : i <= j

Collect(w) ==
    LET st == w.stream
        h == w.heap
        alive == {s \in Streams : st[s].cls # "none"}
        nTP == [s \in Streams |-> IF s \in alive THEN Least({x \in alive : st[x].TP = st[s].TP}) ELSE 0]
        nD == [s \in Streams |-> IF s \in alive THEN Least({x \in alive : st[x].imol.data = st[s].imol.data}) ELSE 0]
        nP == [s \in Streams |-> IF s \in alive THEN Least({x \in alive : st[x].imol.phase = st[s].imol.phase}) ELSE 0]
        nC == [s \in Streams |-> IF s \in alive THEN Least({x \in alive : st[x].imol.data_cache = st[s].imol.data_cache}) ELSE 0]
        \* view 2c-1 is the mass view of the cache named c, view 2c its volumetric view
        view == [k \in 1..(2 * NStreams) |->
                    LET c == (k + 1) \div 2
                    IN IF c \in alive /\ nC[c] = c
                       THEN IF k % 2 = 1 THEN h.cache[st[c].imol.data_cache].mass
                                         ELSE h.cache[st[c].imol.data_cache].vol
                       ELSE 0]
        vname == [k \in 1..(2 * NStreams) |->
                     IF view[k] = 0 THEN 0
                     ELSE IF \E s \in alive : st[s].imol.data = view[k]
                          THEN nD[CHOOSE s \in alive : st[s].imol.data = view[k]]
                          ELSE NStreams + Least({j \in 1..k : view[j] = view[k]})]
    IN [stream |-> [s \in Streams |->
                       IF s \notin alive THEN NoStream
                       ELSE [st[s] EXCEPT !.TP = nTP[s],
                                              !.imol = [data |-> nD[s], phase |-> nP[s],
                                                        data_cache |-> nC[s]]]],
        heap |-> [TP |-> [n \in RawIds |-> IF n \in alive /\ nTP[n] = n THEN h.TP[st[n].TP] ELSE NoTP],
                  data |-> [n \in RawIds |->
                               IF n \in alive /\ nD[n] = n THEN h.data[st[n].imol.data]
                               ELSE IF n > NStreams /\ n <= 3 * NStreams /\ vname[n - NStreams] = n
                                    THEN h.data[view[n - NStreams]]
                                    ELSE NoData],
                  phase |-> [n \in RawIds |-> IF n \in alive /\ nP[n] = n THEN h.phase[st[n].imol.phase] ELSE NoPhase],
                  cache |-> [n \in RawIds |->
                                IF n \in alive /\ nC[n] = n
                                THEN [mass |-> vname[2 * n - 1], vol |-> vname[2 * n]]
                                ELSE EmptyCache]]]

World == [stream |-> stream, heap |-> heap]

Commit(w) ==
    LET c == Collect(w)
    IN /\ stream' = c.stream
       /\ heap' = c.heap

\* --------------------------------------------------------------- accessors
T_of(w, s) == w.heap.TP[w.stream[s].TP].T
P_of(w, s) == w.heap.TP[w.stream[s].TP].P
phase_of(w, s) == w.heap.phase[w.stream[s].imol.phase]
mol_of(w, s) == w.heap.data[w.stream[s].imol.data]

\* ------------------------------------------------- derived views (Flow Store)
\* _imol.by_mass(): the cached mass view, built on a miss from the indexer's
\* current molar array and bound to it by reference.  A view is modelled by the
\* molar array it is bound to (0: not cached).
by_mass(w, s) ==
    LET im == w.stream[s].imol
    IN IF w.heap.cache[im.data_cache].mass # 0 THEN w
       ELSE [w EXCEPT !.heap.cache[im.data_cache].mass = im.data]

\* _imol.by_volume(TP): likewise for the volumetric view.
by_volume(w, s) ==
    LET im == w.stream[s].imol
    IN IF w.heap.cache[im.data_cache].vol # 0 THEN w
       ELSE [w EXCEPT !.heap.cache[im.data_cache].vol = im.data]

\* The molar array the mass view read through s is bound to.
mass_target(w, s) == by_mass(w, s).heap.cache[w.stream[s].imol.data_cache].mass

\* Stream.mass (getter): mass flow of each chemical, read through the view.
mass_of(w, s) == [c \in Chems |-> MW[c] * w.heap.data[mass_target(w, s)][c]]

\* ------------------------------------------------------------------ setters
set_T(w, s, v) == [w EXCEPT !.heap.TP[w.stream[s].TP].T = v]
set_P(w, s, v) == [w EXCEPT !.heap.TP[w.stream[s].TP].P = v]
set_phase(w, s, ph) == [w EXCEPT !.heap.phase[w.stream[s].imol.phase] = ph]
set_mol(w, s, value) == [w EXCEPT !.heap.data[w.stream[s].imol.data] = value]
empty(w, s) == [w EXCEPT !.heap.data[w.stream[s].imol.data] = [c \in Chems |-> 0]]
\* mass[:] = value: every MassFlowProperty stores value / MW into its array.
set_mass(w, s, value) ==
    LET w1 == by_mass(w, s)
    IN [w1 EXCEPT !.heap.data[mass_target(w, s)] = [c \in Chems |-> value[c] \div MW[c]]]

\* --------------------------------------------------------------------- link
link_cache(w, a, b, TP, flow, phase) ==
    IF TP /\ flow /\ phase
    THEN [w EXCEPT !.stream[a].imol.data_cache = w.stream[b].imol.data_cache]
    ELSE [w EXCEPT !.heap.cache[w.stream[a].imol.data_cache] = EmptyCache,
                   !.heap.cache[w.stream[b].imol.data_cache] = EmptyCache]

link_TP(w, a, b) == [w EXCEPT !.stream[a].TP = w.stream[b].TP]
\* Variant: the flows of other are stored into the array of self.
link_flow_by_value(w, a, b) ==
    [w EXCEPT !.heap.data[w.stream[a].imol.data] = w.heap.data[w.stream[b].imol.data]]
link_flow(w, a, b) == [w EXCEPT !.stream[a].imol.data = w.stream[b].imol.data]
\* Variant: sharing the phase tag also shares the thermal condition.
link_phase_and_TP(w, a, b) ==
    [w EXCEPT !.stream[a].imol.phase = w.stream[b].imol.phase, !.stream[a].TP = w.stream[b].TP]
link_phase(w, a, b) == [w EXCEPT !.stream[a].imol.phase = w.stream[b].imol.phase]

link(w, a, b, TP, flow, phase) ==
    LET w1 == link_cache(w, a, b, TP, flow, phase)
        w2 == IF TP THEN link_TP(w1, a, b) ELSE w1
        w3 == IF flow THEN link_flow(w2, a, b) ELSE w2
    IN IF phase THEN link_phase(w3, a, b) ELSE w3

\* ------------------------------------------------------------------- unlink
unlink_cache(w, s) == [w EXCEPT !.heap.cache[w.stream[s].imol.data_cache] = EmptyCache]

unlink_TP(w, s) ==
    LET old == w.stream[s].TP
        new == Fresh(s)
    IN [w EXCEPT !.stream[s].TP = new, !.heap.TP[new] = w.heap.TP[old]]

\* Variant: the new array is blank.
unlink_data_blank(w, s) ==
    [w EXCEPT !.stream[s].imol.data = Fresh(s), !.heap.data[Fresh(s)] = [c \in Chems |-> 0]]
unlink_data(w, s) ==
    LET old == w.stream[s].imol.data
        new == Fresh(s)
    IN [w EXCEPT !.stream[s].imol.data = new, !.heap.data[new] = w.heap.data[old]]

unlink_phase(w, s) ==
    LET old == w.stream[s].imol.phase
        new == Fresh(s)
    IN [w EXCEPT !.stream[s].imol.phase = new, !.heap.phase[new] = w.heap.phase[old]]

unlink(w, s) == unlink_phase(unlink_data(unlink_TP(unlink_cache(w, s), s), s), s)

\* --------------------------------------------------------------------- copy
\* _imol.copy(): a new indexer with its own array, phase cell and empty cache.
indexer_copy(w, s, t) ==
    LET d == Fresh(t)
        p == Fresh(t)
        c == Fresh(t)
    IN [imol |-> [data |-> d, phase |-> p, data_cache |-> c],
        heap |-> [w.heap EXCEPT !.data[d] = mol_of(w, s),
                                !.phase[p] = phase_of(w, s),
                                !.cache[c] = EmptyCache]]

\* Variant: the copy keeps the thermal condition object of self.
copy_keeping_TP(w, s, t) ==
    LET ic == indexer_copy(w, s, t)
    IN [stream |-> [w.stream EXCEPT ![t] = [w.stream[s] EXCEPT !.ID = 0, !.imol = ic.imol]],
        heap |-> ic.heap]
copy(w, s, t) ==
    LET ic == indexer_copy(w, s, t)
        tp == Fresh(t)
    IN [stream |-> [w.stream EXCEPT ![t] = [w.stream[s] EXCEPT !.ID = 0, !.TP = tp, !.imol = ic.imol]],
        heap |-> [ic.heap EXCEPT !.TP[tp] = w.heap.TP[w.stream[s].TP]]]

\* ------------------------------------------------------- operation record
\* hist.iso[s]: "unlinked" / "copied" when s came out of unlink() / copy() and has
\*   not been an argument of link since.  hist.src: the stream copy() was called on.
\* hist.link: the latest link call; first = TRUE when it was the first link or
\*   unlink of the run (both streams as constructed); w: the setter calls made
\*   before it; "used" once unlink has run after it.
NoLink == [op |-> "none", s |-> 0, o |-> 0, TP |-> FALSE, flow |-> FALSE, phase |-> FALSE,
           first |-> FALSE, w |-> 0]
UsedLink == [NoLink EXCEPT !.op = "used"]

\* ------------------------------------------------------ unit resolution
Units == {"kmol/hr", "kg/hr", "kg/day", "m3/hr", "K"}
NoEntry == [name |-> "-", factor |-> 0]
EmptyIndex == [u \in Units |-> NoEntry]
NoOut == [op |-> "none"]

\* ------------------------------------------------------------------ actions
NInit == NStreams - 1      \* streams constructed at the start; one slot is left for copy()

\* Stream(): the default arguments (T=298.15, P=101325., phase='l', blank flows).
InitDefault ==
    /\ stream = [s \in Streams |->
                    IF s <= NInit
                    THEN [NoStream EXCEPT !.cls = "Stream", !.ID = s, !.TP = s,
                                           !.imol = [data |-> s, phase |-> s, data_cache |-> s]]
                    ELSE NoStream]
    /\ heap = [TP |-> [i \in RawIds |-> IF i <= NInit THEN [T |-> T_default, P |-> P_default] ELSE NoTP],
               data |-> [i \in RawIds |-> IF i <= NInit THEN [c \in Chems |-> 0] ELSE NoData],
               phase |-> [i \in RawIds |-> IF i <= NInit THEN "l" ELSE NoPhase],
               cache |-> [i \in RawIds |-> EmptyCache]]
    /\ hist = [iso |-> [s \in Streams |-> "-"], src |-> 0, link |-> NoLink]
    /\ nwrites = 0
    /\ index_cache = EmptyIndex
    /\ out = NoOut

Init == InitDefault

IsStream(s) == stream[s].cls = "Stream"

Write(w, s) ==
    /\ IsStream(s)
    /\ nwrites < MaxWrites
    /\ nwrites' = nwrites + 1
    /\ Commit(w)
    /\ UNCHANGED <<hist, aux>>

SetT(s, v) == Write(set_T(World, s, v), s)

SetP(s, v) == Write(set_P(World, s, v), s)

SetPhase(s, ph) == Write(set_phase(World, s, ph), s)

SetMol(s, value) == Write(set_mol(World, s, value), s)

SetMass(s, m) == Write(set_mass(World, s, [c \in Chems |-> MW[c] * m[c]]), s)

Empty(s) == Write(empty(World, s), s)

ReadIMass(s) ==
    /\ IsStream(s)
    /\ Commit(by_mass(World, s))
    /\ UNCHANGED <<hist, nwrites, aux>>

ReadIVol(s) ==
    /\ IsStream(s)
    /\ Commit(by_volume(World, s))
    /\ UNCHANGED <<hist, nwrites, aux>>

Link(a, b, TP, flow, phase) ==
    /\ IsStream(a) /\ IsStream(b) /\ a # b
    /\ Commit(link(World, a, b, TP, flow, phase))
    /\ hist' = [hist EXCEPT !.iso[a] = "-", !.iso[b] = "-",
                            !.link = [op |-> "link", s |-> a, o |-> b, TP |-> TP, flow |-> flow,
                                      phase |-> phase, first |-> hist.link.op = "none",
                                      w |-> nwrites]]
    /\ UNCHANGED <<nwrites, aux>>

Unlink(s) ==
    /\ IsStream(s)
    /\ Commit(unlink(World, s))
    /\ hist' = [hist EXCEPT !.iso[s] = "unlinked", !.link = UsedLink]
    /\ UNCHANGED <<nwrites, aux>>

Copy(s, t) ==
    /\ IsStream(s)
    /\ stream[t].cls = "none"
    /\ Commit(copy(World, s, t))
    /\ hist' = [hist EXCEPT !.iso[t] = "copied", !.src = s]
    /\ UNCHANGED <<nwrites, aux>>

Writes ==
    \/ \E s \in Streams, v \in TInputs : SetT(s, v)
    \/ \E s \in Streams, v \in PInputs : SetP(s, v)
    \/ \E s \in Streams, ph \in PhaseTags : SetPhase(s, ph)
    \/ \E s \in Streams, value \in FlowInputs : SetMol(s, value)
    \/ \E s \in Streams, m \in FlowInputs : SetMass(s, m)
    \/ \E s \in Streams : Empty(s)

\* The streams constructed at the start: setters, derived views, link, unlink.
Next ==
    \/ Writes
    \/ \E s \in Streams : ReadIMass(s)
    \/ \E s \in Streams : ReadIVol(s)
    \/ \E a, b \in Streams, TP, flow, phase \in BOOLEAN : Link(a, b, TP, flow, phase)
    \/ \E s \in Streams : Unlink(s)

Spec == Init /\ [][Next]_vars

\* Streams constructed with different arguments, and copy().  The copy reads
\* its views and is unlinked, but is not itself passed to link.
InitDistinct ==
    /\ stream = [s \in Streams |->
                    IF s <= NInit
                    THEN [NoStream EXCEPT !.cls = "Stream", !.ID = s, !.TP = s,
                                           !.imol = [data |-> s, phase |-> s, data_cache |-> s]]
                    ELSE NoStream]
    /\ heap = [TP |-> [i \in RawIds |-> IF i <= NInit
                                       THEN [T |-> T_default + 100 * i, P |-> P_default + 1000]
                                       ELSE NoTP],
               data |-> [i \in RawIds |-> IF i <= NInit
                                         THEN [c \in Chems |-> IF c = "Water" THEN 1 ELSE 0]
                                         ELSE NoData],
               phase |-> [i \in RawIds |-> IF i <= NInit THEN "g" ELSE NoPhase],
               cache |-> [i \in RawIds |-> EmptyCache]]
    /\ hist = [iso |-> [s \in Streams |-> "-"], src |-> 0, link |-> NoLink]
    /\ nwrites = 0
    /\ index_cache = EmptyIndex
    /\ out = NoOut

NextCopy ==
    \/ \E s \in Streams : ReadIMass(s)
    \/ \E a, b \in 1..NInit, TP, flow, phase \in BOOLEAN : Link(a, b, TP, flow, phase)
    \/ \E s \in Streams : Unlink(s)
    \/ \E s, t \in Streams : Copy(s, t)

SpecCopy == InitDistinct /\ [][NextCopy]_vars

\* ------------------------------------------------------ what a client sees
Zero == [c \in Chems |-> 0]
Mass(x) == [c \in Chems |-> MW[c] * x[c]]
Numeric(w, t) ==
    [T |-> T_of(w, t), P |-> P_of(w, t), phase |-> phase_of(w, t), mol |-> mol_of(w, t)]
Reads(w, t) == [num |-> Numeric(w, t), mass |-> mass_of(w, t)]
Others(s) == {t \in Streams : stream[t].cls # "none" /\ t # s}

\* Every write of a facet through s shows through t / leaves what t reads alone.
TPSeen(w, s, t) ==
    /\ \A v \in TInputs : T_of(set_T(w, s, v), t) = v
    /\ \A v \in PInputs : P_of(set_P(w, s, v), t) = v
TPUnseen(w, s, t) ==
    /\ \A v \in TInputs : Reads(set_T(w, s, v), t) = Reads(w, t)
    /\ \A v \in PInputs : Reads(set_P(w, s, v), t) = Reads(w, t)
FlowSeen(w, s, t) ==
    /\ \A x \in FlowInputs : mol_of(set_mol(w, s, x), t) = x
    /\ \A x \in FlowInputs : mol_of(set_mass(w, s, Mass(x)), t) = x
    /\ mol_of(empty(w, s), t) = Zero
FlowUnseen(w, s, t) ==
    /\ \A x \in FlowInputs : Reads(set_mol(w, s, x), t) = Reads(w, t)
    /\ \A x \in FlowInputs : Reads(set_mass(w, s, Mass(x)), t) = Reads(w, t)
    /\ Reads(empty(w, s), t) = Reads(w, t)
PhaseSeen(w, s, t) == \A ph \in PhaseTags : phase_of(set_phase(w, s, ph), t) = ph
PhaseUnseen(w, s, t) == \A ph \in PhaseTags : Reads(set_phase(w, s, ph), t) = Reads(w, t)

Unseen(w, s, t) == TPUnseen(w, s, t) /\ FlowUnseen(w, s, t) /\ PhaseUnseen(w, s, t)

\* s holds no cell another stream holds, and no write through s or through
\* another stream shows through the other.
Independent(s) ==
    \A t \in Others(s) :
        /\ stream[s].TP # stream[t].TP
        /\ stream[s].imol.data # stream[t].imol.data
        /\ stream[s].imol.phase # stream[t].imol.phase
        /\ Unseen(World, s, t)
        /\ Unseen(World, t, s)

\* -------------------------------------------------------------- properties
\* C1: two streams as constructed, after a.link(b, TP, flow, phase): a write of a
\* facet through either stream shows through the other exactly when that
\* facet's flag was true.
C1_LinkSharesSelected ==
    (hist.link.op = "link" /\ hist.link.first) =>
        LET a == hist.link.s
            b == hist.link.o
        IN \A p \in {<<a, b>>, <<b, a>>} :
              /\ IF hist.link.TP THEN TPSeen(World, p[1], p[2]) ELSE TPUnseen(World, p[1], p[2])
              /\ IF hist.link.flow THEN FlowSeen(World, p[1], p[2]) ELSE FlowUnseen(World, p[1], p[2])
              /\ IF hist.link.phase THEN PhaseSeen(World, p[1], p[2]) ELSE PhaseUnseen(World, p[1], p[2])

\* Flow-only link, then a composition written through one stream: both read it,
\* and their temperatures are held apart.
C1_Witness ==
    /\ hist.link.op = "link" /\ hist.link.first
    /\ hist.link.flow /\ ~hist.link.TP /\ ~hist.link.phase
    /\ nwrites > hist.link.w
    /\ mol_of(World, hist.link.s) # Zero
    /\ mol_of(World, hist.link.s) = mol_of(World, hist.link.o)
    /\ stream[hist.link.s].TP # stream[hist.link.o].TP

\* C2: after s.unlink() (and until s is linked again) s shares nothing with any
\* other stream: no write through s shows through another stream, nor the
\* reverse.
C2_UnlinkIsolates == \A s \in Streams : hist.iso[s] = "unlinked" => Independent(s)

\* C3: streams hold the same derived-view cache only while they hold the same
\* molar array, phase cell and thermal condition, and a cached view is one built
\* from the stream's current molar array.
C3_CacheConsistent ==
    \A s \in Streams : stream[s].cls # "none" =>
        /\ \A t \in Others(s) :
              stream[s].imol.data_cache = stream[t].imol.data_cache =>
                  /\ stream[s].imol.data = stream[t].imol.data
                  /\ stream[s].imol.phase = stream[t].imol.phase
                  /\ stream[s].TP = stream[t].TP
        /\ heap.cache[stream[s].imol.data_cache].mass \in {0, stream[s].imol.data}
        /\ heap.cache[stream[s].imol.data_cache].vol \in {0, stream[s].imol.data}

\* C4 as stated: after a.link(other, TP, flow, phase) the selected facets are
\* shared and every unselected facet is not.
C4_UnselectedIndependent ==
    hist.link.op = "link" =>
        LET a == stream[hist.link.s]
            b == stream[hist.link.o]
        IN /\ hist.link.TP <=> a.TP = b.TP
           /\ hist.link.flow <=> a.imol.data = b.imol.data
           /\ hist.link.phase <=> a.imol.phase = b.imol.phase

\* C4 amended: link makes the selected facets of a the cells of other and leaves
\* every unselected facet of a, and every facet of every other stream, bound to
\* the cell it was bound to before the call.
C4_LinkRebindsSelectedOnly ==
    /\ hist.link.op = "link" =>
          LET a == stream[hist.link.s]
              b == stream[hist.link.o]
          IN /\ hist.link.TP => a.TP = b.TP
             /\ hist.link.flow => a.imol.data = b.imol.data
             /\ hist.link.phase => a.imol.phase = b.imol.phase
    /\ \A a, b \in Streams, TP, flow, phase \in BOOLEAN :
          (IsStream(a) /\ IsStream(b) /\ a # b) =>
              LET after == link(World, a, b, TP, flow, phase).stream
              IN /\ after[a].TP = IF TP THEN stream[b].TP ELSE stream[a].TP
                 /\ after[a].imol.data = IF flow THEN stream[b].imol.data ELSE stream[a].imol.data
                 /\ after[a].imol.phase = IF phase THEN stream[b].imol.phase ELSE stream[a].imol.phase
                 /\ \A t \in Others(a) :
                       /\ after[t].TP = stream[t].TP
                       /\ after[t].imol.data = stream[t].imol.data
                       /\ after[t].imol.phase = stream[t].imol.phase

\* a.link(b) and then a.link(b, TP=False): the thermal condition stays shared.
C4_Witness ==
    /\ hist.link.op = "link" /\ ~hist.link.first
    /\ ~hist.link.TP /\ hist.link.flow /\ hist.link.phase
    /\ stream[hist.link.s].TP = stream[hist.link.o].TP

\* C5: unlink leaves what the stream itself reads (T, P, phase, every molar
\* flow) as it was, and a second unlink changes nothing more.
C5_UnlinkKeepsValues ==
    [][\A s \in Streams :
          /\ (IsStream(s) /\ hist.iso[s] # "unlinked" /\ hist'.iso[s] = "unlinked") =>
                Numeric(World', s) = Numeric(World, s)
          /\ IsStream(s) =>
                /\ Numeric(unlink(World, s), s) = Numeric(World, s)
                /\ Numeric(unlink(unlink(World, s), s), s) = Numeric(unlink(World, s), s)]_vars

\* A stream unlinked from a partner after the shared temperature was written.
C5_Witness ==
    \E s \in Streams : \E t \in Others(s) :
        /\ hist.iso[s] = "unlinked"
        /\ T_of(World, s) # T_default
        /\ T_of(World, t) = T_of(World, s)
        /\ stream[s].TP # stream[t].TP

\* C6: t = s.copy() has no identity, reads what s read at the call, and shares
\* nothing with s or any stream linked to s: writes through t do not show
\* through them, nor theirs through t.
C6_CopyNeverAliases ==
    /\ \A t \in Streams : hist.iso[t] = "copied" =>
          /\ stream[t].ID = 0
          /\ Independent(t)
          /\ \A x \in Others(t) : stream[x].imol.data_cache # stream[t].imol.data_cache
    /\ \A s, t \in Streams : (IsStream(s) /\ stream[t].cls = "none") =>
          LET after == copy(World, s, t)
          IN /\ after.stream[t].ID = 0
             /\ Numeric(after, t) = Numeric(World, s)
             /\ \A x \in Others(t) : Numeric(after, x) = Numeric(World, x)

\* The copy of a stream that shares its thermal condition and flows with a partner.
C6_Witness ==
    \E t \in Streams :
        /\ hist.iso[t] = "copied"
        /\ \E x \in Others(hist.src) :
              /\ x # t
              /\ stream[x].TP = stream[hist.src].TP
              /\ stream[x].imol.data = stream[hist.src].imol.data
        /\ Numeric(World, t) = Numeric(World, hist.src)
        /\ mol_of(World, t) # Zero

\* ============================================================ unit resolver
\* Dimensionality of a unit string, and the factor from the base units
\* (kmol/hr, kg/hr, m3/hr) of its basis.
get_dimensionality(units) ==
    CASE units = "kmol/hr" -> "[substance]/[time]"
      [] units \in {"kg/hr", "kg/day"} -> "[mass]/[time]"
      [] units = "m3/hr" -> "[length]^3/[time]"
      [] OTHER -> "[temperature]"
conversion_factor(units) == IF units = "kg/day" THEN 24 ELSE 1

\* Molar volume of each chemical at the stream's conditions (the volumetric view).
Vm == [c \in Chems |-> IF c = "Water" THEN 2 ELSE 6]

\* Flow data a client passes, sized so that every conversion is exact.
FlowData == {[c \in Chems |-> 24 * MW[c] * Vm[c] * k] : k \in 0..MaxMol}

\* Variant: the entry is stored before the dimensionality is checked.
resolve_storing_first(cache, units) ==
    LET d == get_dimensionality(units)
        name == CASE d = "[substance]/[time]" -> "imol"
                  [] d = "[mass]/[time]" -> "imass"
                  [] d = "[length]^3/[time]" -> "ivol"
                  [] OTHER -> "imol"
        e == [name |-> name, factor |-> conversion_factor(units)]
    IN [raised |-> IF d = "[temperature]" THEN "DimensionError" ELSE "-",
        name |-> e.name, factor |-> e.factor, cache |-> [cache EXCEPT ![units] = e]]
\* _get_indexer_and_factor: the indexer name and factor for units, and the cache
\* after the call.
get_indexer_and_factor(cache, units) ==
    IF cache[units] # NoEntry
    THEN [raised |-> "-", name |-> cache[units].name, factor |-> cache[units].factor,
          cache |-> cache]
    ELSE LET d == get_dimensionality(units)
         IN IF d \in {"[substance]/[time]", "[mass]/[time]", "[length]^3/[time]"}
            THEN LET name == CASE d = "[substance]/[time]" -> "imol"
                               [] d = "[mass]/[time]" -> "imass"
                               [] OTHER -> "ivol"
                     factor == conversion_factor(units)
                 IN [raised |-> "-", name |-> name, factor |-> factor,
                     cache |-> [cache EXCEPT ![units] = [name |-> name, factor |-> factor]]]
            ELSE [raised |-> "DimensionError", name |-> "-", factor |-> 0, cache |-> cache]

\* getattr(self, name): reading imass / ivol builds the view on a miss.
getattr_indexer(w, s, name) ==
    CASE name = "imass" -> by_mass(w, s)
      [] name = "ivol" -> by_volume(w, s)
      [] OTHER -> w

vol_target(w, s) == by_volume(w, s).heap.cache[w.stream[s].imol.data_cache].vol

\* indexer[...]: the flows read through the indexer, in its base units.
indexer_get(w, s, name) ==
    CASE name = "imass" -> mass_of(w, s)
      [] name = "ivol" -> [c \in Chems |-> Vm[c] * w.heap.data[vol_target(w, s)][c]]
      [] OTHER -> mol_of(w, s)

\* indexer[...] = value
indexer_set(w, s, name, value) ==
    CASE name = "imass" -> set_mass(w, s, value)
      [] name = "ivol" ->
            [by_volume(w, s) EXCEPT
                !.heap.data[vol_target(w, s)] = [c \in Chems |-> value[c] \div Vm[c]]]
      [] OTHER -> set_mol(w, s, value)

\* What a resolution hands back, as recorded in out.
Resolved(op, s, units, r, value) ==
    [op |-> op, s |-> s, units |-> units, raised |-> r.raised, name |-> r.name,
     factor |-> r.factor, value |-> value]

GetFlow(s, units) ==
    /\ IsStream(s)
    /\ LET r == get_indexer_and_factor(index_cache, units)
       IN /\ index_cache' = r.cache
          /\ IF r.raised # "-"
             THEN /\ UNCHANGED <<stream, heap>>
                  /\ out' = Resolved("get_flow", s, units, r, Zero)
             ELSE /\ Commit(getattr_indexer(World, s, r.name))
                  /\ out' = Resolved("get_flow", s, units, r,
                                     [c \in Chems |-> r.factor * indexer_get(World, s, r.name)[c]])
    /\ UNCHANGED <<hist, nwrites>>

SetFlow(s, data, units) ==
    /\ IsStream(s)
    /\ nwrites < MaxWrites
    /\ LET r == get_indexer_and_factor(index_cache, units)
       IN /\ index_cache' = r.cache
          /\ out' = Resolved("set_flow", s, units, r, data)
          /\ IF r.raised # "-"
             THEN UNCHANGED <<stream, heap, nwrites>>
             ELSE /\ Commit(indexer_set(World, s, r.name, [c \in Chems |-> data[c] \div r.factor]))
                  /\ nwrites' = nwrites + 1
    /\ UNCHANGED hist

\* Stream(flow=data, units=units): flows loaded, then indexer[...] = mol * factor.
\* A constructor that raises leaves no stream behind.
Construct(t, data, units) ==
    /\ stream[t].cls = "none" /\ t <= NInit
    /\ LET r == get_indexer_and_factor(index_cache, units)
           new == [stream |-> [stream EXCEPT ![t] =
                                  [NoStream EXCEPT !.cls = "Stream", !.ID = t, !.TP = Fresh(t),
                                       !.imol = [data |-> Fresh(t), phase |-> Fresh(t),
                                                 data_cache |-> Fresh(t)]]],
                   heap |-> [heap EXCEPT !.TP[Fresh(t)] = [T |-> T_default, P |-> P_default],
                                         !.data[Fresh(t)] = data,
                                         !.phase[Fresh(t)] = "l",
                                         !.cache[Fresh(t)] = EmptyCache]]
       IN /\ index_cache' = r.cache
          /\ out' = Resolved("Stream", t, units, r, data)
          /\ IF r.raised # "-"
             THEN UNCHANGED <<stream, heap>>
             ELSE Commit(indexer_set(new, t, r.name, [c \in Chems |-> data[c] * r.factor]))
    /\ UNCHANGED <<hist, nwrites>>

NextUnits ==
    \/ \E s \in Streams, units \in Units : GetFlow(s, units)
    \/ \E s \in Streams, data \in FlowData, units \in Units : SetFlow(s, data, units)
    \/ \E t \in Streams, data \in FlowData, units \in Units : Construct(t, data, units)

\* One stream as constructed; the others are yet to be constructed.
InitOne ==
    /\ stream = [s \in Streams |->
                    IF s = 1
                    THEN [NoStream EXCEPT !.cls = "Stream", !.ID = s, !.TP = s,
                                           !.imol = [data |-> s, phase |-> s, data_cache |-> s]]
                    ELSE NoStream]
    /\ heap = [TP |-> [i \in RawIds |-> IF i = 1 THEN [T |-> T_default, P |-> P_default] ELSE NoTP],
               data |-> [i \in RawIds |-> IF i = 1 THEN [c \in Chems |-> 0] ELSE NoData],
               phase |-> [i \in RawIds |-> IF i = 1 THEN "l" ELSE NoPhase],
               cache |-> [i \in RawIds |-> EmptyCache]]
    /\ hist = [iso |-> [s \in Streams |-> "-"], src |-> 0, link |-> NoLink]
    /\ nwrites = 0
    /\ index_cache = EmptyIndex
    /\ out = NoOut

SpecUnits == InitOne /\ [][NextUnits]_vars

\* C9: an entry of the unit cache is created only by a successful resolution of
\* its unit string, names one of the three bases with that unit's factor, and
\* never changes afterwards; every resolution returns what the cache holds; a
\* resolution that raises DimensionError adds no entry and changes no stream.
C9_IndexCacheMonotone ==
    [][/\ \A u \in Units :
            /\ index_cache[u] # NoEntry => index_cache'[u] = index_cache[u]
            /\ (index_cache[u] = NoEntry /\ index_cache'[u] # NoEntry) =>
                  /\ out'.units = u /\ out'.raised = "-"
                  /\ index_cache'[u].name \in {"imol", "imass", "ivol"}
                  /\ index_cache'[u].factor = conversion_factor(u)
       /\ out'.op \in {"get_flow", "set_flow", "Stream"} =>
            IF out'.raised = "-"
            THEN /\ index_cache'[out'.units] = [name |-> out'.name, factor |-> out'.factor]
                 /\ out'.name = "imol" <=> get_dimensionality(out'.units) = "[substance]/[time]"
                 /\ out'.name = "imass" <=> get_dimensionality(out'.units) = "[mass]/[time]"
                 /\ out'.name = "ivol" <=> get_dimensionality(out'.units) = "[length]^3/[time]"
            ELSE /\ out'.raised = "DimensionError"
                 /\ index_cache' = index_cache
                 /\ stream' = stream /\ heap' = heap]_vars

\* A failed resolution on a stream holding flows, after kg/day and kmol/hr were
\* resolved.
C9_Witness ==
    /\ out.op = "set_flow" /\ out.raised = "DimensionError"
    /\ index_cache["kg/day"] = [name |-> "imass", factor |-> 24]
    /\ index_cache["kmol/hr"] = [name |-> "imol", factor |-> 1]
    /\ index_cache["K"] = NoEntry
    /\ \E s \in Streams : IsStream(s) /\ mol_of(World, s) # Zero

\* =========================================== composition and intensive properties
\* Floating-point numbers are fractions n/d; d = 0 is a non-finite value
\* (0/0: not-a-number, n/0: infinite), and arithmetic on the pairs propagates it
\* as IEEE arithmetic does.
Num(k) == [n |-> k, d |-> 1]
Div(a, b) == [n |-> a.n * b.d, d |-> a.d * b.n]
Mul(a, b) == [n |-> a.n * b.n, d |-> a.d * b.d]
Add(a, b) == [n |-> a.n * b.d + b.n * a.d, d |-> a.d * b.d]
Finite(a) == a.d # 0
IsZero(a) == a.n = 0 /\ a.d # 0

RECURSIVE SumOver(_, _)
SumOver(f, S) ==
    IF S = {} THEN Num(0)
    ELSE LET c == CHOOSE x \in S : TRUE IN Add(f[c], SumOver(f, S \ {c}))

F_mol(w, s) == mol_of(w, s)["Water"] + mol_of(w, s)["Ethanol"]
F_mass(w, s) == MW["Water"] * mol_of(w, s)["Water"] + MW["Ethanol"] * mol_of(w, s)["Ethanol"]

\* What a property read gives: the value or the exception, and the calls made
\* to the mixture object (degenerate: the composition passed is not finite).
Ret(value, calls) == [raised |-> "-", value |-> value, calls |-> calls]

\* mixture.<fn>_at_TP(phase, z, TP): a composition-weighted mean of per-chemical values.
mixture_at_TP(z) == SumOver([c \in Chems |-> Mul(Num(Vm[c]), z[c])], Chems)

\* V, kappa, Cn, mu, sigma, epsilon: mixture.<fn>(mol / F_mol) if F_mol else 0
guarded_property(w, s, fn) ==
    LET mol == mol_of(w, s)
        F == F_mol(w, s)
        z == [c \in Chems |-> Div(Num(mol[c]), Num(F))]
    IN IF F # 0
       THEN Ret(mixture_at_TP(z), {[fn |-> fn, degenerate |-> \E c \in Chems : ~Finite(z[c])]})
       ELSE Ret(Num(0), {})

prop_MW(w, s) == Ret(Div(Num(F_mass(w, s)), Num(F_mol(w, s))), {})

prop_Cp(w, s) ==
    LET Cn == guarded_property(w, s, "Cn_at_TP")
    IN Ret(Div(Cn.value, prop_MW(w, s).value), Cn.calls)

\* fn.V_to_rho(V, MW)
prop_rho(w, s) ==
    LET V == guarded_property(w, s, "V_at_TP")
    IN Ret(Div(prop_MW(w, s).value, V.value), V.calls)

\* fn.alpha(kappa, rho, Cp)
prop_alpha(w, s) ==
    LET kappa == guarded_property(w, s, "kappa_at_TP")
        rho == prop_rho(w, s)
        Cp == prop_Cp(w, s)
    IN Ret(Div(kappa.value, Mul(rho.value, Cp.value)), kappa.calls \cup rho.calls \cup Cp.calls)

\* fn.mu_to_nu(mu, rho)
prop_nu(w, s) ==
    LET mu == guarded_property(w, s, "mu_at_TP")
        rho == prop_rho(w, s)
    IN Ret(Div(mu.value, rho.value), mu.calls \cup rho.calls)

\* fn.Pr(self.Cp, self.mu, self.k): Stream has no attribute k.
prop_Pr(w, s) ==
    [raised |-> "AttributeError", value |-> Num(0),
     calls |-> prop_Cp(w, s).calls \cup guarded_property(w, s, "mu_at_TP").calls]

z_of(flow) ==
    LET F == flow["Water"] + flow["Ethanol"]
    IN IF F # 0 THEN [c \in Chems |-> Div(Num(flow[c]), Num(F))]
       ELSE [c \in Chems |-> Num(flow[c])]

ZProps == {"z_mol", "z_mass", "z_vol"}
Guarded == {"V", "kappa", "Cn", "mu", "sigma", "epsilon"}
Props == ZProps \cup Guarded \cup {"MW", "Cp", "rho", "alpha", "nu", "Pr"}

property(w, s, p) ==
    CASE p = "z_mol" -> Ret(z_of(mol_of(w, s)), {})
      [] p = "z_mass" -> Ret(z_of([c \in Chems |-> MW[c] * mol_of(w, s)[c]]), {})
      [] p = "z_vol" -> Ret(z_of(indexer_get(w, s, "ivol")), {})
      [] p = "MW" -> prop_MW(w, s)
      [] p = "Cp" -> prop_Cp(w, s)
      [] p = "rho" -> prop_rho(w, s)
      [] p = "alpha" -> prop_alpha(w, s)
      [] p = "nu" -> prop_nu(w, s)
      [] p = "Pr" -> prop_Pr(w, s)
      [] OTHER -> guarded_property(w, s, p \o "_at_TP")

ReadProperty(s, p) ==
    /\ IsStream(s)
    /\ LET r == property(World, s, p)
       IN out' = [op |-> "read", s |-> s, prop |-> p, mol |-> mol_of(World, s),
                  raised |-> r.raised, value |-> r.value, calls |-> r.calls]
    /\ IF p = "z_vol" THEN Commit(by_volume(World, s)) ELSE UNCHANGED <<stream, heap>>
    /\ UNCHANGED <<index_cache, hist, nwrites>>

NextProps ==
    \/ \E s \in Streams, value \in FlowInputs : SetMol(s, value)
    \/ \E s \in Streams : Empty(s)
    \/ \E s \in Streams, p \in Props : ReadProperty(s, p)

SpecProps == InitDefault /\ [][NextProps]_vars

\* C7: read on a stream whose molar flows are all zero, every composition and
\* intensive property returns zero (the zero vector for z_*), raises nothing,
\* and passes no non-finite composition to the mixture object.
C7_ZeroFlowReadsZero ==
    (out.op = "read" /\ out.mol = Zero) =>
        /\ out.raised = "-"
        /\ IF out.prop \in ZProps THEN \A c \in Chems : IsZero(out.value[c])
                                  ELSE IsZero(out.value)
        /\ \A k \in out.calls : ~k.degenerate

\* ================================================================ phase cast
PhaseSets == {"gl", "ls"}
Alive(s) == stream[s].cls # "none"

\* _imol.to_material_indexer(phases): a new indexer, with its own array holding
\* the same flows and its own empty view cache.
to_material_indexer(w, s, phases) ==
    [imol |-> [data |-> Fresh(s), phase |-> Fresh(s), data_cache |-> Fresh(s)],
     heap |-> [w.heap EXCEPT !.data[Fresh(s)] = mol_of(w, s),
                             !.phase[Fresh(s)] = phases,
                             !.cache[Fresh(s)] = EmptyCache]]

\* Variant: the indexer and the equilibrium cache are replaced, the class is not.
phases_set_keeping_class(w, s, phases) ==
    LET mi == to_material_indexer(w, s, phases)
    IN [stream |-> [w.stream EXCEPT ![s].imol = mi.imol, ![s].vle = TRUE, ![s].phases = phases],
        heap |-> mi.heap]
\* phases (setter)
phases_set(w, s, phases) ==
    LET mi == to_material_indexer(w, s, phases)
    IN [stream |-> [w.stream EXCEPT ![s].cls = "MultiStream", ![s].imol = mi.imol,
                                    ![s].vle = TRUE, ![s].phases = phases],
        heap |-> mi.heap]

\* phases (getter): Stream raises; MultiStream returns its phases.
phases_get(w, s) ==
    IF w.stream[s].cls = "Stream"
    THEN [raised |-> "AttributeError", value |-> "-"]
    ELSE [raised |-> "-", value |-> w.stream[s].phases]

\* vle (getter).  Stream.vle casts to 'gl' and reads self.vle again: on the
\* class the object then has.  MultiStream.vle returns the equilibrium handle;
\* Stream.vle would be entered again, without end.
vle_get(w, s) ==
    IF w.stream[s].cls = "MultiStream"
    THEN [w |-> w, raised |-> "-", entries |-> 0]
    ELSE LET w1 == phases_set(w, s, "gl")
         IN IF w1.stream[s].cls = "MultiStream"
            THEN [w |-> w1, raised |-> "-", entries |-> 1]
            ELSE [w |-> w1, raised |-> "RecursionError", entries |-> 2]

Did(op, s, raised, value) == [op |-> op, s |-> s, raised |-> raised, value |-> value, entries |-> 0]

ReadPhases(s) ==
    /\ Alive(s)
    /\ out' = Did("phases", s, phases_get(World, s).raised, phases_get(World, s).value)
    /\ UNCHANGED <<stream, heap, index_cache, hist, nwrites>>

SetPhases(s, phases) ==
    /\ Alive(s)
    /\ Commit(phases_set(World, s, phases))
    /\ out' = Did("phases=", s, "-", phases)
    /\ UNCHANGED <<index_cache, hist, nwrites>>

ReadVle(s) ==
    /\ Alive(s)
    /\ LET r == vle_get(World, s)
       IN /\ Commit(r.w)
          /\ out' = [Did("vle", s, r.raised, r.w.stream[s].phases) EXCEPT !.entries = r.entries]
    /\ UNCHANGED <<index_cache, hist, nwrites>>

CastSetT(s, v) ==
    /\ Alive(s)
    /\ Commit(set_T(World, s, v))
    /\ out' = Did("T=", s, "-", "-")
    /\ UNCHANGED <<index_cache, hist, nwrites>>

CastLink(a, b, TP, flow, phase) ==
    /\ IsStream(a) /\ IsStream(b) /\ a # b
    /\ Commit(link(World, a, b, TP, flow, phase))
    /\ out' = Did("link", a, "-", "-")
    /\ UNCHANGED <<index_cache, hist, nwrites>>

CastUnlink(s) ==
    /\ IsStream(s)
    /\ Commit(unlink(World, s))
    /\ out' = Did("unlink", s, "-", "-")
    /\ UNCHANGED <<index_cache, hist, nwrites>>

NextCast ==
    \/ \E s \in Streams : ReadPhases(s)
    \/ \E s \in Streams, phases \in PhaseSets : SetPhases(s, phases)
    \/ \E s \in Streams : ReadVle(s)
    \/ \E s \in Streams, v \in TInputs : CastSetT(s, v)
    \/ \E a, b \in Streams, TP, flow, phase \in BOOLEAN : CastLink(a, b, TP, flow, phase)
    \/ \E s \in Streams : CastUnlink(s)

SpecCast == InitDefault /\ [][NextCast]_vars

\* C8: a multi-phase stream stays multi-phase; a stream becomes multi-phase only
\* by an assignment to phases or a read of vle on it, keeping its identity and
\* its thermal condition object; reading phases on a single-phase stream raises
\* AttributeError and changes nothing; reading vle enters the cast at most once,
\* casts to 'gl' and returns.
C8_CastIsOneWay ==
    [][\A s \in Streams :
          /\ stream[s].cls = "MultiStream" => stream'[s].cls = "MultiStream"
          /\ (stream[s].cls = "Stream" /\ stream'[s].cls = "MultiStream") =>
                /\ out'.s = s /\ out'.op \in {"phases=", "vle"} /\ out'.raised = "-"
                /\ stream'[s].ID = stream[s].ID
                /\ stream'[s].phases = out'.value
                /\ T_of(World', s) = T_of(World, s) /\ P_of(World', s) = P_of(World, s)
                /\ \A t \in Streams : stream[t].TP = stream[s].TP <=> stream'[t].TP = stream'[s].TP
          /\ (out'.s = s /\ out'.op = "phases") =>
                IF stream[s].cls = "Stream"
                THEN out'.raised = "AttributeError" /\ stream' = stream /\ heap' = heap
                ELSE out'.raised = "-" /\ out'.value = stream[s].phases
          /\ (out'.s = s /\ out'.op = "vle") =>
                /\ out'.raised = "-" /\ out'.entries <= 1
                /\ stream'[s].cls = "MultiStream" /\ stream'[s].vle
                /\ stream[s].cls = "Stream" => stream'[s].phases = "gl"]_vars

\* A stream cast by a read of vle while it shared its thermal condition, since
\* written, with a single-phase stream.
C8_Witness ==
    /\ out.op = "vle" /\ out.raised = "-" /\ out.entries = 1
    /\ stream[out.s].cls = "MultiStream" /\ stream[out.s].phases = "gl"
    /\ T_of(World, out.s) # T_default
    /\ \E t \in Streams : t # out.s /\ stream[t].cls = "Stream" /\ stream[t].TP = stream[out.s].TP

\* ================================================================== split_to
SplitDen == 2
Splits == {[n |-> k, d |-> SplitDen] : k \in 0..SplitDen}
Times(split, flow) == [c \in Chems |-> (flow[c] * split.n) \div split.d]
Exact(split, flow) == \A c \in Chems : (flow[c] * split.n) % split.d = 0

\* Variant: s2 receives the whole flow.
split_to_whole(w, s, s1, s2, split) ==
    LET mol == w.stream[s].imol.data
        dummy == Times(split, w.heap.data[mol])
        w1 == [w EXCEPT !.heap.data[w.stream[s1].imol.data] = dummy]
    IN [w1 EXCEPT !.heap.data[w1.stream[s2].imol.data] = w1.heap.data[mol]]
\* split_to: mol is the array of self, read again after s1 has been written.
split_to(w, s, s1, s2, split) ==
    LET mol == w.stream[s].imol.data
        dummy == Times(split, w.heap.data[mol])
        w1 == [w EXCEPT !.heap.data[w.stream[s1].imol.data] = dummy]
    IN [w1 EXCEPT !.heap.data[w1.stream[s2].imol.data] =
                      [c \in Chems |-> w1.heap.data[mol][c] - dummy[c]]]

SplitTo(s, s1, s2, split) ==
    /\ IsStream(s) /\ IsStream(s1) /\ IsStream(s2)
    /\ nwrites < MaxWrites
    /\ Exact(split, mol_of(World, s))
    /\ Commit(split_to(World, s, s1, s2, split))
    /\ nwrites' = nwrites + 1
    /\ out' = [op |-> "split_to", s |-> s, s1 |-> s1, s2 |-> s2, split |-> split,
               mol |-> mol_of(World, s),
               s1_is_s |-> stream[s1].imol.data = stream[s].imol.data,
               s2_is_s |-> stream[s2].imol.data = stream[s].imol.data,
               s1_is_s2 |-> stream[s1].imol.data = stream[s2].imol.data]
    /\ UNCHANGED <<index_cache, hist>>

FlowLink(a, b) ==
    /\ IsStream(a) /\ IsStream(b) /\ a # b
    /\ Commit(link(World, a, b, FALSE, TRUE, FALSE))
    /\ UNCHANGED <<index_cache, out, hist, nwrites>>

\* Three streams constructed with different flows.
InitSplit ==
    /\ stream = [s \in Streams |->
                    [NoStream EXCEPT !.cls = "Stream", !.ID = s, !.TP = s,
                                     !.imol = [data |-> s, phase |-> s, data_cache |-> s]]]
    /\ heap = [TP |-> [i \in RawIds |-> IF i <= NStreams THEN [T |-> T_default, P |-> P_default]
                                       ELSE NoTP],
               data |-> [i \in RawIds |-> IF i <= NStreams
                                         THEN [c \in Chems |-> IF c = "Water" THEN SplitDen * i
                                                               ELSE SplitDen]
                                         ELSE NoData],
               phase |-> [i \in RawIds |-> IF i <= NStreams THEN "l" ELSE NoPhase],
               cache |-> [i \in RawIds |-> EmptyCache]]
    /\ hist = [iso |-> [s \in Streams |-> "-"], src |-> 0, link |-> NoLink]
    /\ nwrites = 0
    /\ index_cache = EmptyIndex
    /\ out = NoOut

NextSplit ==
    \/ \E s, s1, s2 \in Streams, split \in Splits : SplitTo(s, s1, s2, split)
    \/ \E a, b \in Streams : FlowLink(a, b)

SpecSplit == InitSplit /\ [][NextSplit]_vars

====
